---- MODULE Spec2Model ----
(***************************************************************************)
(* A model of atcoder-bot-rs (src/src/main.rs): the persisted Data         *)
(* (config.json), the slash commands that mutate it, the notification      *)
(* pipeline `process`, its manual trigger `run` and the daily loop         *)
(* `daily_job`.                                                            *)
(*                                                                         *)
(* Five specifications share the variables:                                *)
(*   Spec       one pipeline run at a time, started by the `run` command;  *)
(*   SpecDaily  the daily loop against a wall clock, calling the pipeline; *)
(*   SpecStore  concurrently executing channel/register/unregister         *)
(*              commands, save, crash/restart and the startup restore;     *)
(*   SpecBatch  the paging of one account's details, more than a page;     *)
(*   SpecColor  normalize_difficulty, difficulty_color and the label       *)
(*              lookup, evaluated on a range of i64 values.                *)
(* A pipeline run keeps all its data in locals and only reads config.json, *)
(* so runs do not influence one another and one run in flight per          *)
(* specification loses no behaviour of a single run.                       *)
(***************************************************************************)
EXTENDS Integers, Sequences, FiniteSets, Bags, TLC

VARIABLES
    \* ---- config.json and the in-memory Data (main.rs 20-37)
    file,             \* contents of config.json
    mem,              \* the Data held by the framework: [channel, users]; while
                      \* the process is down, the Data it held when it stopped
    cmds,             \* the command invocations in flight (a bag)
    alive,            \* the bot process is running and has seen Ready
    life,             \* since the last start: has a command failed, has one completed
    \* ---- one run of process() (main.rs 169-348)
    procPc,           \* position of the run
    caller,           \* "run" or "daily": who called process()
    users,            \* the roster still to iterate, in iteration order
    channel,          \* the destination read from config.json
    problem_models,   \* HashMap<String, ProblemModelItem>
    problems,         \* Vec<ProblemItem>
    embeds,           \* the pages built so far
    submissions,      \* the submissions fetched for the current account
    solved_problems,  \* the ProblemDetails of the current account
    user,             \* the account processed last
    outcome,          \* "none" | "ok" | "err" | "panic"
    \* ---- what a run did to the outside world (history)
    order,            \* the iteration order the roster was walked in
    results,          \* <<[user, details]>> per processed account
    fetches,          \* the HTTP requests issued, with their outcome
    sent,             \* the messages delivered to the channel
    \* ---- the `run` command (main.rs 351-357)
    runPc,
    runReply,
    \* ---- daily_job (main.rs 359-380) and the clock it reads
    clock,            \* wall clock, in ticks since a local midnight
    drift,            \* ticks that elapsed between statements of this cycle
    dailyPc,
    now,
    target_time,
    sleep_duration,
    wakeAt,
    started,          \* clock readings at which the last two daily runs started
    \* ---- one evaluation of the difficulty classifier (main.rs 84-103, 68-82)
    fnPc,
    fnArg,            \* the i64 the evaluation starts from
    diff,             \* the value handed to difficulty_color
    color,            \* the Color it returned
    label             \* String::from(color)

storeVars == <<mem, cmds, alive, life>>
procVars  == <<procPc, caller, users, channel, problem_models, problems, embeds,
               submissions, solved_problems, user, outcome, order, results,
               fetches, sent>>
runVars   == <<runPc, runReply>>
dailyVars == <<clock, drift, dailyPc, now, target_time, sleep_duration, wakeAt,
               started>>
fnVars    == <<fnPc, fnArg, diff, color, label>>
vars == <<file, storeVars, procVars, runVars, dailyVars, fnVars>>

-----------------------------------------------------------------------------
(* Bounds of the model *)

MaxSubs == 3          \* submissions one account has in the window
MaxCmds == 2          \* commands executing concurrently
MaxDays == 2          \* days the clock runs over
MaxDrift == 1         \* ticks elapsing between statements of a daily cycle
MaxLate == 1          \* ticks a sleep may overrun its deadline
TicksPerSec == 2      \* sub-second resolution of the clock
MaxDetails == 51      \* ProblemDetails one account has when they are paged
LowDifficulty == 400  \* the classifier is evaluated from -LowDifficulty ...
MaxDifficulty == 2900 \* ... up to MaxDifficulty

(* Program constants *)

ChunkSize == 25       \* solved_problems.chunks(25)
DaySecs == 86400      \* chrono::Duration::days(1), 24 * 60 * 60

UserNames   == {"a", "b"}
Channels    == {"C1"}
ProblemIds  == {"p1", "p2"}

\* the outcome of an awaited request or of a system call
Statuses == {"ok", "fail"}

-----------------------------------------------------------------------------
(* Option<T> *)

None == [some |-> FALSE, val |-> 0]
Some(v) == [some |-> TRUE, val |-> v]

RECURSIVE SetToSeq(_)
SetToSeq(S) ==
    IF S = {} THEN <<>>
    ELSE LET x == CHOOSE y \in S : TRUE IN <<x>> \o SetToSeq(S \ {x})

Range(s) == {s[i] : i \in 1..Len(s)}

Perms(S) == {p \in [1..Cardinality(S) -> S] : Range(p) = S}

-----------------------------------------------------------------------------
(* Color, normalize_difficulty, difficulty_color (main.rs 39-103) *)

\* an order of declaration that puts the unknown difficulty last
ColorBlackLast == <<"Gray", "Brown", "Green", "Cyan", "Blue", "Yellow",
                    "Orange", "Red", "Black">>

\* derive(PartialOrd, Ord) on the enum: the order of declaration
Color == <<"Black", "Gray", "Brown", "Green", "Cyan", "Blue", "Yellow",
           "Orange", "Red">>

ColorRank(c) == CHOOSE i \in 1..Len(Color) : Color[i] = c

\* The least raw difficulty d < 400 at which
\* (400.0 / (1.0 + (1.0 - d as f64 / 400.0).exp())) as i64 reaches k, k = 1..199,
\* tabulated from the f64 evaluation (the quotient never comes within 1e-6 of
\* an integer, so the table does not depend on the last bit of exp).
NormalizeSteps ==
    <<-1995, -1717, -1554, -1438, -1347, -1273, -1211, -1156, -1108, -1065,
      -1026, -990, -957, -926, -898, -871, -845, -822, -799, -777, -757, -737,
      -718, -700, -683, -666, -650, -634, -619, -604, -590, -576, -563, -550,
      -537, -525, -513, -501, -490, -478, -467, -457, -446, -436, -426, -416,
      -406, -396, -387, -378, -369, -360, -351, -342, -334, -326, -317, -309,
      -301, -293, -286, -278, -270, -263, -255, -248, -241, -234, -227, -220,
      -213, -206, -199, -193, -186, -180, -173, -167, -160, -154, -148, -142,
      -136, -129, -123, -118, -112, -106, -100, -94, -88, -83, -77, -72, -66,
      -61, -55, -50, -44, -39, -34, -28, -23, -18, -13, -8, -2, 3, 8, 13, 18,
      23, 28, 33, 37, 42, 47, 52, 57, 62, 66, 71, 76, 80, 85, 90, 94, 99, 104,
      108, 113, 117, 122, 126, 131, 135, 140, 144, 148, 153, 157, 162, 166,
      170, 175, 179, 183, 188, 192, 196, 200, 205, 209, 213, 217, 222, 226,
      230, 234, 238, 242, 247, 251, 255, 259, 263, 267, 271, 275, 280, 284,
      288, 292, 296, 300, 304, 308, 312, 316, 320, 324, 328, 332, 336, 340,
      344, 348, 352, 356, 360, 364, 368, 372, 376, 380, 384, 388, 392, 396>>

\* a normalisation that passes every value through
normalize_identity(difficulty) == difficulty

normalize_difficulty(difficulty) ==
    IF difficulty >= 400
    THEN difficulty
    ELSE Cardinality({k \in 1..Len(NormalizeSteps) : difficulty >= NormalizeSteps[k]})

difficulty_color(difficulty) ==
    CASE difficulty >= 0 /\ difficulty <= 399     -> "Gray"
      [] difficulty >= 400 /\ difficulty <= 799   -> "Brown"
      [] difficulty >= 800 /\ difficulty <= 1199  -> "Green"
      [] difficulty >= 1200 /\ difficulty <= 1599 -> "Cyan"
      [] difficulty >= 1600 /\ difficulty <= 1999 -> "Blue"
      [] difficulty >= 2000 /\ difficulty <= 2399 -> "Yellow"
      [] difficulty >= 2400 /\ difficulty <= 2799 -> "Orange"
      [] OTHER -> "Red"

\* impl From<Color> for String (lines 68-82): the one-character display
\* labels, written here by their readings; Black has none (unreachable!())
ColorLabel(c) ==
    CASE c = "Black"  -> "unreachable"
      [] c = "Gray"   -> "hai"
      [] c = "Brown"  -> "cha"
      [] c = "Green"  -> "midori"
      [] c = "Cyan"   -> "mizu"
      [] c = "Blue"   -> "ao"
      [] c = "Yellow" -> "ki"
      [] c = "Orange" -> "daidai"
      [] OTHER        -> "aka"

\* the i64 values the classifier is evaluated on
Difficulties == (0 - LowDifficulty)..MaxDifficulty

\* normalize_difficulty(d), as at lines 223 and 324
NormalizeDifficulty ==
    /\ fnPc = "arg"
    /\ diff' = normalize_difficulty(fnArg)
    /\ fnPc' = "normalized"
    /\ UNCHANGED <<fnArg, color, label>>
    /\ UNCHANGED <<file, storeVars, procVars, runVars, dailyVars>>

\* difficulty_color(diff): on the normalized value as at lines 224 and 325,
\* or on the i64 itself
DifficultyColor ==
    /\ fnPc \in {"arg", "normalized"}
    /\ diff' = (IF fnPc = "arg" THEN fnArg ELSE diff)
    /\ color' = difficulty_color(diff')
    /\ fnPc' = (IF fnPc = "arg" THEN "direct" ELSE "colored")
    /\ UNCHANGED <<fnArg, label>>
    /\ UNCHANGED <<file, storeVars, procVars, runVars, dailyVars>>

\* line 224: Into::<String>::into(difficulty_color(diff))
IntoString ==
    /\ fnPc = "colored"
    /\ label' = ColorLabel(color)
    /\ fnPc' = "labelled"
    /\ UNCHANGED <<fnArg, diff, color>>
    /\ UNCHANGED <<file, storeVars, procVars, runVars, dailyVars>>

-----------------------------------------------------------------------------
(* config.json: save and load (main.rs 27-37) *)

DefaultData == [channel |-> None, users |-> {}]

DataValues == [channel : {None} \cup {Some(c) : c \in Channels},
               users : SUBSET UserNames]

\* serde_json::to_string(data): the HashSet is written as a JSON array
to_string(data) == [channel |-> data.channel, users |-> SetToSeq(data.users)]

\* serde_json::from_str: the JSON array is collected into a HashSet
from_str(text) == [channel |-> text.channel, users |-> Range(text.users)]

NoFile   == [kind |-> "absent", text |-> to_string(DefaultData)]
TornFile == [kind |-> "torn", text |-> to_string(DefaultData)]
FileOf(text) == [kind |-> "json", text |-> text]

\* load(): read_to_string fails on a missing file, from_str on a text that is
\* not a whole record
load(f) ==
    IF f.kind = "json"
    THEN [ok |-> TRUE, data |-> from_str(f.text)]
    ELSE [ok |-> FALSE, data |-> DefaultData]

-----------------------------------------------------------------------------
(* The commands channel, register, unregister (main.rs 105-149).  Commands   *)
(* run as tasks of a multi-threaded runtime: a step is one critical section  *)
(* of a Mutex, one file system call or one await.                            *)

\* a register that stores the names as they were typed
keep(raw) == raw

\* str::trim on the names the model registers
trim(raw) ==
    CASE raw = " a" -> "a"
      [] raw = "b " -> "b"
      [] OTHER -> raw

\* users.split(",").map(|u| u.trim().to_string()), on the split input
RegisterInputs == { <<" a", "a">>, <<"b ">> }

UnregisterInputs == { <<"a">> }

ChannelInputs == { <<c>> : c \in Channels }

Invocations ==
    [op : {"channel"}, arg : ChannelInputs]
        \cup [op : {"register"}, arg : RegisterInputs]
        \cup [op : {"unregister"}, arg : UnregisterInputs]

\* the first step of a command: register replies before it touches the roster
FirstStep(op) == IF op = "register" THEN "reply" ELSE "mutate"

\* lines 108, 132, 143: the command's update of the Data, under its Mutex
Mutate(op, arg, data) ==
    CASE op = "channel" -> [data EXCEPT !.channel = Some(arg[1])]
      [] op = "register" ->
            [data EXCEPT !.users = @ \cup {trim(arg[i]) : i \in 1..Len(arg)}]
      [] OTHER -> [data EXCEPT !.users = @ \ {arg[1]}]

\* the length of the JSON text, up to a constant: a channel id is longer than
\* null, and every roster entry adds to it
Size(text) == (IF text.channel.some THEN 20 ELSE 4) + 4 * Len(text.users)

\* File::create of std::fs::write: the file exists and is empty
Truncated == TornFile

\* write_all of std::fs::write, from offset 0 of what the file holds now
Overwrite(f, text) ==
    IF f.kind = "json" /\ Size(f.text) > Size(text) /\ f.text # text
    THEN TornFile
    ELSE FileOf(text)

Replace(c, d) == (cmds (-) SetToBag({c})) (+) SetToBag({d})

Retire(c, ok) ==
    /\ cmds' = cmds (-) SetToBag({c})
    /\ life' = [failed |-> life.failed \/ ~ok, completed |-> life.completed \/ ok]

\* a slash command arrives
Invoke ==
    /\ alive
    /\ BagCardinality(cmds) < MaxCmds
    /\ \E i \in Invocations :
        cmds' = cmds (+) SetToBag({[op |-> i.op, arg |-> i.arg,
                                    pc |-> FirstStep(i.op),
                                    text |-> to_string(DefaultData)]})
    /\ UNCHANGED <<file, mem, alive, life>>
    /\ UNCHANGED <<procVars, runVars, dailyVars, fnVars>>

\* ctx.reply(..).await? (lines 110-114, 129-130, 145-146)
Reply ==
    \E c \in BagToSet(cmds) : \E st \in Statuses :
        /\ c.pc = "reply"
        /\ IF st = "ok" /\ c.op = "register"
           THEN /\ cmds' = Replace(c, [c EXCEPT !.pc = "mutate"])
                /\ UNCHANGED life
           ELSE Retire(c, st = "ok")
        /\ UNCHANGED <<file, mem, alive>>
        /\ UNCHANGED <<procVars, runVars, dailyVars, fnVars>>

\* lines 108, 132, 143
Update ==
    \E c \in BagToSet(cmds) :
        /\ c.pc = "mutate"
        /\ mem' = Mutate(c.op, c.arg, mem)
        /\ cmds' = Replace(c, [c EXCEPT !.pc = "ser_channel"])
        /\ UNCHANGED <<file, alive, life>>
        /\ UNCHANGED <<procVars, runVars, dailyVars, fnVars>>

\* line 28, the field `channel`: Serialize for Mutex locks, writes, unlocks
SerializeChannel ==
    \E c \in BagToSet(cmds) :
        /\ c.pc = "ser_channel"
        /\ cmds' = Replace(c, [c EXCEPT !.pc = "ser_users",
                                        !.text.channel = mem.channel])
        /\ UNCHANGED <<file, mem, alive, life>>
        /\ UNCHANGED <<procVars, runVars, dailyVars, fnVars>>

\* line 28, the field `users`
SerializeUsers ==
    \E c \in BagToSet(cmds) :
        /\ c.pc = "ser_users"
        /\ cmds' = Replace(c, [c EXCEPT !.pc = "open",
                                        !.text.users = SetToSeq(mem.users)])
        /\ UNCHANGED <<file, mem, alive, life>>
        /\ UNCHANGED <<procVars, runVars, dailyVars, fnVars>>

\* line 29, std::fs::write: the file is created or truncated; `?` on failure
OpenFile ==
    \E c \in BagToSet(cmds) : \E st \in Statuses :
        /\ c.pc = "open"
        /\ IF st = "ok"
           THEN /\ file' = Truncated
                /\ cmds' = Replace(c, [c EXCEPT !.pc = "write"])
                /\ UNCHANGED life
           ELSE /\ Retire(c, FALSE)
                /\ UNCHANGED file
        /\ UNCHANGED <<mem, alive>>
        /\ UNCHANGED <<procVars, runVars, dailyVars, fnVars>>

\* line 29, std::fs::write: the text is written; register is then complete
WriteFile ==
    \E c \in BagToSet(cmds) :
        /\ c.pc = "write"
        /\ file' = Overwrite(file, c.text)
        /\ IF c.op = "register"
           THEN Retire(c, TRUE)
           ELSE /\ cmds' = Replace(c, [c EXCEPT !.pc = "reply"])
                /\ UNCHANGED life
        /\ UNCHANGED <<mem, alive>>
        /\ UNCHANGED <<procVars, runVars, dailyVars, fnVars>>

\* what the Ready handler makes of load() (lines 390-400)
Restore(loaded) == IF loaded.ok THEN loaded.data ELSE DefaultData

\* lines 420-425 and 382-403: setup with Data::default(), then Ready
Boot ==
    /\ ~alive
    /\ alive' = TRUE
    /\ mem' = Restore(load(file))
    /\ life' = [failed |-> FALSE, completed |-> FALSE]
    /\ UNCHANGED <<file, cmds>>
    /\ UNCHANGED <<procVars, runVars, dailyVars, fnVars>>

\* the process stops (a shutdown, a crash, a kill): the commands in flight
\* do not complete
Stop ==
    /\ alive
    /\ alive' = FALSE
    /\ life' = [life EXCEPT !.failed = @ \/ cmds # EmptyBag]
    /\ cmds' = EmptyBag
    /\ UNCHANGED <<file, mem>>
    /\ UNCHANGED <<procVars, runVars, dailyVars, fnVars>>

-----------------------------------------------------------------------------
(* The upstream data a run can be answered with *)

ProblemItem(p) == [id |-> p, contest_id |-> "contest-of-" \o p,
                   title |-> "title-of-" \o p]
DefaultProblemItem == [id |-> "", contest_id |-> "", title |-> ""]

\* problems.json: the catalog may lack entries
Catalogs == {<<ProblemItem("p1")>>, <<ProblemItem("p2"), ProblemItem("p1")>>}

\* problem-models.json: an entry may be missing, or hold no difficulty
ModelItem(p, d) == [id |-> p, difficulty |-> d]
ModelMaps ==
    { {},
      {ModelItem("p1", Some(350)), ModelItem("p2", None)},
      {ModelItem("p1", Some(2900)), ModelItem("p2", Some(1650))} }

\* Accepted submissions of two problems and a rejected one, in two languages
RawSubmissions ==
    { [problem_id |-> "p1", language |-> "Rust", result |-> "AC"],
      [problem_id |-> "p1", language |-> "C++", result |-> "WA"],
      [problem_id |-> "p2", language |-> "C++", result |-> "AC"] }

\* The submissions of one account in the window: the judge numbers them
SubmissionLists ==
    UNION { { [i \in 1..n |-> [id |-> 100 + i,
                               problem_id |-> raw[i].problem_id,
                               language |-> raw[i].language,
                               result |-> raw[i].result]]
              : raw \in [1..n -> RawSubmissions] }
            : n \in 0..MaxSubs }

-----------------------------------------------------------------------------
(* The per-account computation of process (main.rs 286-331) *)

solved_ids(subs) ==
    LET ac == SelectSeq(subs, LAMBDA s : s.result = "AC")
    IN  [i \in 1..Len(ac) |-> ac[i].problem_id]

\* a lookup that takes a problem without a model for one of difficulty 0
model_of_or_zero(models, id) ==
    IF \E m \in models : m.id = id
    THEN (CHOOSE m \in models : m.id = id).difficulty
    ELSE Some(0)

model_of(models, id) ==
    IF \E m \in models : m.id = id
    THEN (CHOOSE m \in models : m.id = id).difficulty
    ELSE None

\* Iterator::find: the first element with the id
FirstWithId(seq, id) ==
    CHOOSE i \in 1..Len(seq) :
        seq[i].id = id /\ \A j \in 1..(i - 1) : seq[j].id # id

\* problems.iter().find(|p| p.id == *id).cloned().unwrap_or_default()
problem_of(catalog, id) ==
    IF \E i \in 1..Len(catalog) : catalog[i].id = id
    THEN catalog[FirstWithId(catalog, id)]
    ELSE DefaultProblemItem

\* submissions.iter().find(|s| s.problem_id == *id).unwrap()
representative(subs, id) ==
    subs[CHOOSE i \in 1..Len(subs) :
            /\ subs[i].problem_id = id
            /\ \A j \in 1..(i - 1) : subs[j].problem_id # id]

ProblemDetail(subs, models, catalog, id) ==
    LET problem == problem_of(catalog, id)
        submission == representative(subs, id)
    IN  [title |-> problem.title,
         difficulty |-> model_of(models, id),
         language |-> submission.language,
         submission_url |-> <<problem.contest_id, submission.id>>]

SolvedProblems(subs, models, catalog) ==
    LET ids == solved_ids(subs)
    IN  [i \in 1..Len(ids) |-> ProblemDetail(subs, models, catalog, ids[i])]

\* slice::chunks_exact(n): the remainder is left out
chunks_exact(seq, n) ==
    [k \in 1..(Len(seq) \div n) |-> SubSeq(seq, (k - 1) * n + 1, k * n)]

\* a split that always yields a first chunk, empty for an empty slice
chunks_or_empty(seq, n) ==
    [k \in 1..(IF seq = <<>> THEN 1 ELSE (Len(seq) + n - 1) \div n) |->
        SubSeq(seq, (k - 1) * n + 1, IF k * n < Len(seq) THEN k * n ELSE Len(seq))]

\* slice::chunks(n)
chunks(seq, n) ==
    [k \in 1..((Len(seq) + n - 1) \div n) |->
        SubSeq(seq, (k - 1) * n + 1, IF k * n < Len(seq) THEN k * n ELSE Len(seq))]

DetailColor(p) ==
    IF p.difficulty.some
    THEN difficulty_color(normalize_difficulty(p.difficulty.val))
    ELSE "Black"

\* lines 320-329: .max().unwrap(); max() of no color is None and the unwrap
\* panics
MaxColor(page) ==
    IF page = <<>>
    THEN "unwrap-none"
    ELSE CHOOSE c \in {DetailColor(page[i]) : i \in 1..Len(page)} :
            \A i \in 1..Len(page) : ColorRank(DetailColor(page[i])) <= ColorRank(c)

\* ProblemDetail::to_field (lines 216-232): the title, then difficulty |
\* language | link, where the difficulty is "diff(label)" or the word for
\* unknown
to_field(p) ==
    [name |-> p.title,
     value |-> [difficulty |->
                    IF p.difficulty.some
                    THEN LET normalized == normalize_difficulty(p.difficulty.val)
                         IN  <<normalized, ColorLabel(difficulty_color(normalized))>>
                    ELSE <<"unknown">>,
                language |-> p.language,
                link |-> p.submission_url],
     inline |-> FALSE]

\* lines 315-330: one page
Embed(u, page) ==
    [user |-> u,
     fields |-> [i \in 1..Len(page) |-> to_field(page[i])],
     color |-> MaxColor(page)]

Pages(u, details) ==
    LET cs == chunks(details, ChunkSize)
    IN  [k \in 1..Len(cs) |-> Embed(u, cs[k])]

\* a send that carries only the first page
MessageFirstPage(es) ==
    IF es = <<>>
    THEN [content |-> "nobody", embeds |-> <<>>]
    ELSE [content |-> "", embeds |-> <<es[1]>>]

\* the message of lines 334-345
Message(es) ==
    IF es = <<>>
    THEN [content |-> "nobody", embeds |-> <<>>]
    ELSE [content |-> "", embeds |-> es]

\* a fetch error that is swallowed: the run goes on
TryIgnore(status, cont) == cont

\* `?` on a fallible step: an error ends the run
Try(status, cont) == IF status = "ok" THEN cont ELSE "done"

-----------------------------------------------------------------------------
(* process (main.rs 169-348), one action per stretch between two awaits *)

NoRun ==
    /\ procPc = "idle" /\ caller = "none"
    /\ users = <<>> /\ channel = "" /\ problem_models = {} /\ problems = <<>>
    /\ embeds = <<>> /\ submissions = <<>> /\ solved_problems = <<>>
    /\ user = "" /\ outcome = "none" /\ order = <<>> /\ results = <<>>
    /\ fetches = <<>> /\ sent = <<>>

\* a call of process(): fresh locals
CallProcess(who) ==
    /\ procPc' = "load" /\ caller' = who
    /\ users' = <<>> /\ channel' = "" /\ problem_models' = {} /\ problems' = <<>>
    /\ embeds' = <<>> /\ submissions' = <<>> /\ solved_problems' = <<>>
    /\ user' = "" /\ outcome' = "none" /\ order' = <<>> /\ results' = <<>>
    /\ fetches' = <<>> /\ sent' = <<>>

\* process has returned to its caller: its locals are gone
DropProcess ==
    /\ procPc' = "idle" /\ caller' = "none"
    /\ users' = <<>> /\ channel' = "" /\ problem_models' = {} /\ problems' = <<>>
    /\ embeds' = <<>> /\ submissions' = <<>> /\ solved_problems' = <<>>
    /\ user' = "" /\ outcome' = "none" /\ order' = <<>> /\ results' = <<>>
    /\ fetches' = <<>> /\ sent' = <<>>

\* what reading the destination does to the run: expect("Channel not set")
ExpectChannel(ch) == IF ch.some THEN "none" ELSE "panic"

\* lines 235-246: load()?, the roster, the destination
ProcessLoad ==
    /\ procPc = "load"
    /\ LET r == load(file) IN
        IF ~r.ok
        THEN /\ procPc' = "done" /\ outcome' = "err"
             /\ UNCHANGED <<users, order, channel>>
        ELSE IF ExpectChannel(r.data.channel) = "panic"
        THEN /\ procPc' = "done" /\ outcome' = "panic"
             /\ UNCHANGED <<users, order, channel>>
        ELSE \E o \in Perms(r.data.users) :
                /\ users' = o /\ order' = o
                /\ channel' = r.data.channel.val
                /\ procPc' = "models" /\ outcome' = outcome
    /\ UNCHANGED <<caller, problem_models, problems, embeds, submissions,
                   solved_problems, user, results, fetches, sent>>
    /\ UNCHANGED <<file, storeVars, runVars, dailyVars, fnVars>>

\* lines 248-257: problem-models.json
FetchModels ==
    /\ procPc = "models"
    /\ \E st \in Statuses :
       \E m \in (IF st = "ok" THEN ModelMaps ELSE {{}}) :
        /\ fetches' = Append(fetches, [what |-> "problem-models", status |-> st])
        /\ problem_models' = m
        /\ procPc' = Try(st, "problems")
        /\ outcome' = IF procPc' = "done" THEN "err" ELSE outcome
    /\ UNCHANGED <<caller, users, channel, problems, embeds, submissions,
                   solved_problems, user, order, results, sent>>
    /\ UNCHANGED <<file, storeVars, runVars, dailyVars, fnVars>>

\* lines 258-267: problems.json
FetchProblems ==
    /\ procPc = "problems"
    /\ \E st \in Statuses :
       \E c \in (IF st = "ok" THEN Catalogs ELSE {<<>>}) :
        /\ fetches' = Append(fetches, [what |-> "problems", status |-> st])
        /\ problems' = c
        /\ procPc' = Try(st, IF users = <<>> THEN "send" ELSE "user")
        /\ outcome' = IF procPc' = "done" THEN "err" ELSE outcome
    /\ UNCHANGED <<caller, users, channel, problem_models, embeds, submissions,
                   solved_problems, user, order, results, sent>>
    /\ UNCHANGED <<file, storeVars, runVars, dailyVars, fnVars>>

\* lines 270-332: one iteration of `for user in users`
ProcessUser ==
    /\ procPc = "user"
    /\ users # <<>>
    /\ LET u == Head(users) IN
       \E st \in Statuses :
       \E subs \in (IF st = "ok" THEN SubmissionLists ELSE {<<>>}) :
        /\ fetches' = Append(fetches, [what |-> u, status |-> st])
        /\ procPc' = Try(st, IF Len(users) > 1 THEN "user" ELSE "send")
        /\ outcome' = IF procPc' = "done" THEN "err" ELSE outcome
        /\ users' = Tail(users)
        /\ user' = u
        /\ IF st = "ok"
           THEN LET details == SolvedProblems(subs, problem_models, problems) IN
                /\ submissions' = subs
                /\ solved_problems' = details
                /\ embeds' = embeds \o Pages(u, details)
                /\ results' = Append(results, [user |-> u, details |-> details])
           ELSE UNCHANGED <<submissions, solved_problems, embeds, results>>
    /\ UNCHANGED <<caller, channel, problem_models, problems, order, sent>>
    /\ UNCHANGED <<file, storeVars, runVars, dailyVars, fnVars>>

\* lines 334-347: the one send_message of the run
Send ==
    /\ procPc = "send"
    /\ \E st \in Statuses :
        /\ sent' = IF st = "ok"
                   THEN Append(sent, [channel |-> channel, message |-> Message(embeds)])
                   ELSE sent
        /\ procPc' = "done"
        /\ outcome' = IF Try(st, "return") = "done" THEN "err" ELSE "ok"
    /\ UNCHANGED <<caller, users, channel, problem_models, problems, embeds,
                   submissions, solved_problems, user, order, results, fetches>>
    /\ UNCHANGED <<file, storeVars, runVars, dailyVars, fnVars>>

\* lines 314-331 on their own: the pages of one account, from its details
Batch ==
    /\ procPc = "batch"
    /\ embeds' = embeds \o Pages(user, solved_problems)
    /\ procPc' = "batched"
    /\ UNCHANGED <<caller, users, channel, problem_models, problems,
                   submissions, solved_problems, user, outcome, order, results,
                   fetches, sent>>
    /\ UNCHANGED <<file, storeVars, runVars, dailyVars, fnVars>>

Process == ProcessLoad \/ FetchModels \/ FetchProblems \/ ProcessUser \/ Send

-----------------------------------------------------------------------------
(* The `run` command (main.rs 351-357) *)

\* what the invoker gets: "完了！", or the error/panic the framework reports
RunResult(out, replied) ==
    CASE out = "ok" /\ replied = "ok" -> "done"
      [] out = "ok" -> "error"
      [] out = "err" -> "error"
      [] OTHER -> "panic"

\* line 353-354: ctx.defer().await?, then the call of process
RunDefer ==
    /\ runPc = "idle"
    /\ procPc \in {"idle"}
    /\ \E st \in Statuses :
        IF st = "ok"
        THEN /\ runPc' = "process" /\ runReply' = "none"
             /\ CallProcess("run")
        ELSE /\ runPc' = "idle" /\ runReply' = "error"
             /\ UNCHANGED procVars
    /\ UNCHANGED <<file, storeVars, dailyVars, fnVars>>

\* lines 354-356: process returned; `?`, then ctx.reply("完了！").await?
RunFinish ==
    /\ runPc = "process" /\ procPc = "done" /\ caller = "run"
    /\ \E st \in (IF outcome = "ok" THEN Statuses ELSE {"ok"}) :
        runReply' = RunResult(outcome, st)
    /\ runPc' = "idle"
    /\ procPc' = "idle"
    /\ UNCHANGED <<caller, users, channel, problem_models, problems, embeds,
                   submissions, solved_problems, user, outcome, order, results,
                   fetches, sent>>
    /\ UNCHANGED <<file, storeVars, dailyVars, fnVars>>

-----------------------------------------------------------------------------
(* daily_job (main.rs 359-380).  The clock counts ticks of 1/TicksPerSec      *)
(* second; local midnights are the multiples of DayTicks (a zone without     *)
(* daylight saving).  The sleep and the wall clock advance together.         *)

DayTicks == DaySecs * TicksPerSec

\* DateTime::timestamp(): whole seconds
Timestamp(t) == t \div TicksPerSec

\* with_hour(0), with_minute(0), with_second(0): the time of day is set to
\* 00:00:00 on the same date; the sub-second part is kept
AtMidnight(t) ==
    (Timestamp(t) - (Timestamp(t) % DaySecs)) * TicksPerSec + (t % TicksPerSec)

\* lines 362-366, from the reading `t` of Local::now()
TargetTime(t) == AtMidnight(t + DayTicks)

\* a sleep computed from `now` rounded up to the next whole second
SleepDurationCeil(target, t) ==
    Timestamp(target) - ((t + TicksPerSec - 1) \div TicksPerSec)

\* lines 367-371: target_time.timestamp() - now.timestamp(), whole seconds
SleepDuration(target, t) == Timestamp(target) - Timestamp(t)

LastTwo(seq) == IF Len(seq) > 2 THEN Tail(seq) ELSE seq

\* a loop that logs the failure of a cycle and goes on
AfterCycleContained(out) == "now"

\* line 378: .expect("Failed to run daily job"), then the next iteration
AfterCycle(out) == IF out = "ok" THEN "now" ELSE "dead"

\* time passing between two readings of the clock (lines 361, 362, 377)
Tick ==
    /\ dailyPc \in {"target", "sleep"}
    /\ drift < MaxDrift
    /\ clock' = clock + 1
    /\ drift' = drift + 1
    /\ UNCHANGED <<dailyPc, now, target_time, sleep_duration, wakeAt, started>>
    /\ UNCHANGED <<file, storeVars, procVars, runVars, fnVars>>

\* line 361
DailyNow ==
    /\ dailyPc = "now"
    /\ clock < MaxDays * DayTicks
    /\ now' = clock
    /\ dailyPc' = "target"
    /\ UNCHANGED <<clock, drift, target_time, sleep_duration, wakeAt, started>>
    /\ UNCHANGED <<file, storeVars, procVars, runVars, fnVars>>

\* lines 362-371: the target from a second reading of the clock, and the
\* sleep in whole seconds; try_into().unwrap() panics on a negative one
DailyTarget ==
    /\ dailyPc = "target"
    /\ target_time' = TargetTime(clock)
    /\ sleep_duration' = SleepDuration(target_time', now)
    /\ dailyPc' = IF sleep_duration' < 0 THEN "dead" ELSE "sleep"
    /\ UNCHANGED <<clock, drift, now, wakeAt, started>>
    /\ UNCHANGED <<file, storeVars, procVars, runVars, fnVars>>

\* line 377: the deadline Instant::now() + sleep_duration
DailySleep ==
    /\ dailyPc = "sleep"
    /\ wakeAt' = clock + sleep_duration * TicksPerSec
    /\ dailyPc' = "sleeping"
    /\ UNCHANGED <<clock, drift, now, target_time, sleep_duration, started>>
    /\ UNCHANGED <<file, storeVars, procVars, runVars, fnVars>>

\* lines 377-378: sleep_until returns at or after the deadline and process
\* is called
DailyWake ==
    /\ dailyPc = "sleeping"
    /\ procPc = "idle"
    /\ \E late \in 0..MaxLate :
        /\ clock' = wakeAt + late
        /\ started' = LastTwo(Append(started, clock'))
    /\ drift' = 0
    /\ dailyPc' = "process"
    /\ CallProcess("daily")
    /\ UNCHANGED <<now, target_time, sleep_duration, wakeAt>>
    /\ UNCHANGED <<file, storeVars, runVars, fnVars>>

\* line 378: process returned (or unwound); its locals and those of the
\* iteration are dropped
DailyFinish ==
    /\ dailyPc = "process" /\ procPc = "done" /\ caller = "daily"
    /\ dailyPc' = AfterCycle(outcome)
    /\ DropProcess
    /\ now' = 0 /\ target_time' = 0 /\ sleep_duration' = 0 /\ wakeAt' = 0
    /\ UNCHANGED <<clock, drift, started>>
    /\ UNCHANGED <<file, storeVars, runVars, fnVars>>

-----------------------------------------------------------------------------
(* Initial states *)

StoreIdle ==
    /\ mem = DefaultData
    /\ cmds = EmptyBag
    /\ alive = FALSE
    /\ life = [failed |-> FALSE, completed |-> FALSE]

FnIdle ==
    /\ fnPc = "off" /\ fnArg = 0 /\ diff = 0 /\ color = "none" /\ label = "none"

DailyIdle ==
    /\ clock = 0 /\ drift = 0 /\ dailyPc = "off" /\ now = 0
    /\ target_time = 0 /\ sleep_duration = 0 /\ wakeAt = 0 /\ started = <<>>

\* what config.json can hold when a run starts
ConfigFiles == {NoFile, TornFile} \cup {FileOf(to_string(d)) : d \in DataValues}

Init ==
    /\ file \in ConfigFiles
    /\ StoreIdle /\ DailyIdle /\ NoRun /\ FnIdle
    /\ runPc = "idle" /\ runReply = "none"

Next == RunDefer \/ ProcessLoad \/ FetchModels \/ FetchProblems \/ ProcessUser
            \/ Send \/ RunFinish

Spec == Init /\ [][Next]_vars

\* the daily loop: the task is spawned at some time of the day, with a roster
\* of at most one account
StartTimes == {0, (DayTicks \div 2) + 1, DayTicks - 1}

DailyFiles ==
    { NoFile,
      FileOf(to_string([channel |-> None, users |-> {}])),
      FileOf(to_string([channel |-> Some("C1"), users |-> {"a"}])) }

InitDaily ==
    /\ file \in DailyFiles
    /\ StoreIdle /\ NoRun /\ FnIdle
    /\ runPc = "idle" /\ runReply = "none"
    /\ clock \in StartTimes
    /\ drift = 0 /\ dailyPc = "now" /\ now = 0
    /\ target_time = 0 /\ sleep_duration = 0 /\ wakeAt = 0 /\ started = <<>>

NextDaily == Tick \/ DailyNow \/ DailyTarget \/ DailySleep \/ DailyWake
                \/ ProcessLoad \/ FetchModels \/ FetchProblems \/ ProcessUser
                \/ Send \/ DailyFinish

SpecDaily == InitDaily /\ [][NextDaily]_vars

\* the store: the process starts with no config.json
InitStore ==
    /\ file = NoFile
    /\ StoreIdle /\ DailyIdle /\ NoRun /\ FnIdle
    /\ runPc = "idle" /\ runReply = "none"

NextStore == Boot \/ Invoke \/ Reply \/ Update \/ SerializeChannel
                \/ SerializeUsers \/ OpenFile \/ WriteFile \/ Stop

SpecStore == InitStore /\ [][NextStore]_vars

\* paging on its own: the details of one account, more than a page of them.
\* All entries but at most one (`hot`) have the difficulty `base`.
DetailAt(i, hot, base, peak) ==
    [title |-> "", difficulty |-> IF i = hot THEN peak ELSE base,
     language |-> "Rust", submission_url |-> <<"", 100 + i>>]

Profiles == { <<None, Some(2900)>>, <<Some(850), None>>, <<Some(-50), Some(1650)>> }

DetailLists ==
    UNION { { [i \in 1..n |-> DetailAt(i, hot, pr[1], pr[2])]
                : hot \in 0..n, pr \in Profiles }
            : n \in 0..MaxDetails }

InitBatch ==
    /\ file = NoFile
    /\ StoreIdle /\ DailyIdle /\ FnIdle
    /\ runPc = "idle" /\ runReply = "none"
    /\ procPc = "batch" /\ caller = "none"
    /\ user = "a" /\ solved_problems \in DetailLists
    /\ users = <<>> /\ channel = "" /\ problem_models = {} /\ problems = <<>>
    /\ embeds = <<>> /\ submissions = <<>>
    /\ outcome = "none" /\ order = <<>> /\ results = <<>>
    /\ fetches = <<>> /\ sent = <<>>

NextBatch == Batch

SpecBatch == InitBatch /\ [][NextBatch]_vars

\* the classifier on its own: one evaluation per behaviour
InitColor ==
    /\ file = NoFile
    /\ StoreIdle /\ DailyIdle /\ NoRun
    /\ runPc = "idle" /\ runReply = "none"
    /\ fnPc = "arg" /\ fnArg \in Difficulties
    /\ diff = 0 /\ color = "none" /\ label = "none"

NextColor == NormalizeDifficulty \/ DifficultyColor \/ IntoString

SpecColor == InitColor /\ [][NextColor]_vars

-----------------------------------------------------------------------------
(* Claims about one run of the pipeline, checked under Spec *)

AcceptedIds(subs) ==
    {subs[i].problem_id : i \in {j \in 1..Len(subs) : subs[j].result = "AC"}}

RECURSIVE AllPages(_)
AllPages(rs) ==
    IF rs = <<>> THEN <<>>
    ELSE Pages(Head(rs).user, Head(rs).details) \o AllPages(Tail(rs))

PositionIn(seq, x) == CHOOSE i \in 1..Len(seq) : seq[i] = x

Finished == procPc = "done"

\* C1: for every account a run processes, the run produces exactly one
\* ProblemDetail per distinct problem id among the account's accepted
\* submissions: a problem accepted twice still appears once.
C1_OneDetailPerProblem ==
    results # <<>> =>
        Len(solved_problems) = Cardinality(AcceptedIds(submissions))

\* C2: the representative submission of every reported ProblemDetail (its
\* language and submission id) is an accepted submission of that problem.
C2_RepresentativeAccepted ==
    \A i \in 1..Len(solved_problems) :
        \E j \in 1..Len(submissions) :
            /\ submissions[j].id = solved_problems[i].submission_url[2]
            /\ submissions[j].language = solved_problems[i].language
            /\ submissions[j].problem_id = solved_ids(submissions)[i]
            /\ submissions[j].result = "AC"

\* C3: a run that completes successfully has sent exactly one message (and
\* any other run none): the plain notice when it built no page, otherwise
\* one message with all pages of all accounts, in roster iteration order,
\* each account's pages contiguous.
C3_OneMessagePerRun ==
    /\ Len(sent) = (IF outcome = "ok" THEN 1 ELSE 0)
    /\ (Finished /\ outcome = "ok") =>
        LET m == sent[1].message
            all == AllPages(results)
        IN  /\ sent[1].channel = channel
            /\ [i \in 1..Len(results) |-> results[i].user] = order
            /\ all = <<>> => m = [content |-> "nobody", embeds |-> <<>>]
            /\ all # <<>> => (m.content = "" /\ m.embeds = all)
            /\ \A i, j \in 1..Len(m.embeds) :
                   i < j => PositionIn(order, m.embeds[i].user)
                                <= PositionIn(order, m.embeds[j].user)

C3_Witness ==
    /\ Finished /\ outcome = "ok" /\ Len(sent) = 1
    /\ Len(sent[1].message.embeds) = 2
    /\ sent[1].message.embeds[1].user # sent[1].message.embeds[2].user

\* C4: a failed fetch (either catalog fetch, or any account's submissions)
\* is the last fetch of its run; the run ends with an error that reaches the
\* trigger site and nothing is sent, whatever was already processed.
C4_FetchFailureAborts ==
    \A i \in 1..Len(fetches) :
        fetches[i].status = "fail" =>
            /\ i = Len(fetches)
            /\ sent = <<>>
            /\ procPc \in {"done", "idle"}
            /\ outcome = "err"
            /\ (procPc = "idle" /\ caller = "run") => runReply = "error"

C4_Witness ==
    /\ Len(fetches) = 4 /\ fetches[4].status = "fail"
    /\ embeds # <<>> /\ runReply = "error" /\ sent = <<>>

\* C5: a run started while no destination is configured (no persisted state,
\* or a persisted state whose channel is unset) ends with an error value
\* returned to the trigger site, before any fetch and with nothing sent; the
\* manual trigger reports that error to its invoker.
C5_NotConfiguredIsAnError ==
    LET r == load(file)
        unset == ~r.ok \/ ~r.data.channel.some
    IN  /\ (unset /\ Finished) =>
                (outcome = "err" /\ fetches = <<>> /\ sent = <<>>)
        /\ (unset /\ caller = "run" /\ procPc = "idle") => runReply = "error"

-----------------------------------------------------------------------------
(* Claims about the daily loop, checked under SpecDaily *)

\* C9: a failed cycle is fatal to the daily loop: when process fails, the
\* loop ends, and once it has ended it stays ended and starts no further run;
\* after a successful cycle the loop is back at its head, where it computes
\* the next target.
C9_FailedCycleIsFatal ==
    [][ /\ (dailyPc = "process" /\ dailyPc' # "process")
            => dailyPc' = (IF outcome = "ok" THEN "now" ELSE "dead")
        /\ dailyPc = "dead"
            => (dailyPc' = "dead" /\ started' = started /\ procPc' # "load")
      ]_vars

C9_Witness == dailyPc = "dead" /\ Len(started) = 2

\* the earliest local midnight strictly after the instant t
NextMidnight(t) == ((t \div DayTicks) + 1) * DayTicks

\* C10: in every cycle the computed target is the earliest local midnight
\* strictly after the cycle's `now`, so the sleep is positive and at most 24
\* hours and no midnight after `now` is skipped.
C10_TargetIsNextMidnight ==
    dailyPc \in {"sleep", "sleeping", "process"} =>
        /\ Timestamp(target_time) * TicksPerSec = NextMidnight(now)
        /\ sleep_duration > 0
        /\ sleep_duration <= DaySecs

-----------------------------------------------------------------------------
(* Claims about config.json, checked under SpecStore *)

Quiescent == cmds = EmptyBag /\ ~life.failed /\ life.completed

\* C6: whatever the interleaving of concurrently executing channel, register
\* and unregister commands, once all of them have completed successfully the
\* persisted record equals the Data in memory: no update is missing from it
\* because another command's save wrote an older snapshot over it.  (Stated
\* of a config.json that holds a whole record; a torn one is C7's subject.)
C6_NoLostSave ==
    (alive /\ Quiescent /\ file.kind = "json") => from_str(file.text) = mem

\* C7: save overwrites config.json atomically: a reader of the file (here the
\* startup restore, at the step that reads it) never finds an empty or
\* partially written one, also after a stop in the middle of a save.
C7_AtomicSave == [][(~alive /\ alive') => file.kind # "torn"]_vars

\* C8: the startup restore is a round trip: after commands that all completed
\* successfully and a restart, the Data in memory is what it was before the
\* restart; with no config.json the start is not fatal and the Data is the
\* empty default.
C8_RestoreRoundTrip ==
    [][(~alive /\ alive') =>
          /\ (~life.failed /\ life.completed) => mem' = mem
          /\ file.kind = "absent" => mem' = DefaultData ]_vars

-----------------------------------------------------------------------------
(* Claims about the difficulty classifier, checked under SpecColor *)

\* the bands as the specification lists them
Band(n) ==
    CASE n < 400  -> "Gray"
      [] n < 800  -> "Brown"
      [] n < 1200 -> "Green"
      [] n < 1600 -> "Cyan"
      [] n < 2000 -> "Blue"
      [] n < 2400 -> "Yellow"
      [] n < 2800 -> "Orange"
      [] OTHER    -> "Red"

\* the severity order Unknown < Gray < Brown < ... < Red
Severity ==
    [c \in {"Black", "Gray", "Brown", "Green", "Cyan", "Blue", "Yellow",
            "Orange", "Red"} |->
        CASE c = "Black" -> 0 [] c = "Gray" -> 1 [] c = "Brown" -> 2
          [] c = "Green" -> 3 [] c = "Cyan" -> 4 [] c = "Blue" -> 5
          [] c = "Yellow" -> 6 [] c = "Orange" -> 7 [] OTHER -> 8]

\* C14: for every integer n, negative ones included, difficulty_color(n) is
\* the band of n (Gray below 400, Brown 400..799, ..., Red from 2800 on); it
\* never returns Black, and the display-label lookup is never applied to
\* Black.
C14_BucketTable ==
    /\ fnPc = "direct" => (color = Band(fnArg) /\ color # "Black")
    /\ fnPc \in {"colored", "labelled"} => color # "Black"
    /\ fnPc = "labelled" => label # "unreachable"

\* the classification of every raw difficulty
Classified ==
    [d \in Difficulties |-> difficulty_color(normalize_difficulty(d))]

\* C15: difficulty_color after normalize_difficulty is monotonic: for raw
\* difficulties d1 <= d2 the color of d1 is at most the color of d2 in the
\* severity order; every raw difficulty below 400 is Gray and every raw
\* difficulty from 400 on is passed unchanged and gets the band of its value.
C15_MonotonicBuckets ==
    fnPc = "colored" =>
        /\ color = Classified[fnArg]
        /\ \A d2 \in fnArg..MaxDifficulty :
              Severity[color] <= Severity[Classified[d2]]
        /\ fnArg < 400 => color = "Gray"
        /\ fnArg >= 400 => (diff = fnArg /\ color = Band(fnArg))

C15_Witness ==
    /\ fnPc = "colored" /\ fnArg < 0 /\ diff > 0 /\ color = "Gray"

-----------------------------------------------------------------------------
(* Claims about paging, checked under SpecBatch (C11, C13) and Spec (C12) *)

RECURSIVE Flatten(_)
Flatten(pages) ==
    IF pages = <<>> THEN <<>> ELSE Head(pages).fields \o Flatten(Tail(pages))

\* the entries of the account that lie on its k-th page of 25
OwnEntries(details, k) ==
    {details[i] : i \in {j \in 1..Len(details) : (j - 1) \div 25 = k - 1}}

\* C11: the pages of one account partition its details in order: the entries
\* of the pages, concatenated in page order, are the details; every page but
\* the last has exactly 25 entries and none has more; 30 details give two
\* pages, of 25 and 5.
C11_PagesPartitionDetails ==
    procPc = "batched" =>
        /\ Flatten(embeds) = [i \in 1..Len(solved_problems) |->
                                to_field(solved_problems[i])]
        /\ \A k \in 1..Len(embeds) :
              /\ embeds[k].user = user
              /\ Len(embeds[k].fields) <= 25
              /\ k < Len(embeds) => Len(embeds[k].fields) = 25
        /\ Len(solved_problems) = 30 =>
              /\ Len(embeds) = 2
              /\ Len(embeds[1].fields) = 25 /\ Len(embeds[2].fields) = 5

C11_Witness ==
    procPc = "batched" /\ Len(solved_problems) = 30 /\ Len(embeds) = 2

\* C12: an account without an accepted problem contributes no page; every
\* page of a run holds at least one entry, so the maximum over a page's
\* entries is never taken of an empty page.
C12_NoEmptyPage ==
    /\ \A k \in 1..Len(embeds) :
          Len(embeds[k].fields) >= 1 /\ embeds[k].color # "unwrap-none"
    /\ \A i \in 1..Len(results) :
          results[i].details = <<>> =>
              \A k \in 1..Len(embeds) : embeds[k].user # results[i].user

C12_Witness ==
    /\ Finished /\ outcome = "ok" /\ Len(results) = 2
    /\ results[1].details # <<>> /\ results[2].details = <<>>
    /\ submissions # <<>> /\ Len(embeds) = 1

\* C13: the summary color of a page is the maximum, in the severity order
\* Unknown < Gray < ... < Red, of the colors of the entries on that page
\* only, an entry without difficulty counting as Unknown; a page is
\* Unknown-colored exactly when none of its entries has a difficulty.
C13_PageColorIsOwnMaximum ==
    procPc = "batched" =>
        \A k \in 1..Len(embeds) :
            LET own == OwnEntries(solved_problems, k) IN
            /\ \E e \in own : embeds[k].color = DetailColor(e)
            /\ \A e \in own :
                  Severity[DetailColor(e)] <= Severity[embeds[k].color]
            /\ embeds[k].color = "Black" <=> \A e \in own : ~e.difficulty.some

C13_Witness ==
    /\ procPc = "batched" /\ Len(embeds) = 3
    /\ embeds[1].color = "Black" /\ embeds[2].color = "Red"
    /\ embeds[3].color = "Black"
    /\ \E i \in 1..Len(embeds[2].fields) :
          embeds[2].fields[i].value.difficulty = <<"unknown">>

-----------------------------------------------------------------------------
(* Claims about the roster, checked under SpecStore *)

\* a name as written, without the whitespace around it
Bare(raw) ==
    CASE raw = " a" -> "a"
      [] raw = "b " -> "b"
      [] OTHER -> raw

\* C16: the roster is a set under register and unregister: a register leaves
\* exactly one element for each name of its input, whether the name was
\* present before, is repeated in the input or is written with whitespace
\* around it, and no two elements of the roster are the same name; an
\* unregister of a name that is not in the roster leaves the roster as it is
\* and does not fail.
C16_RosterIsSet ==
    [][ \A c \in BagToSet(cmds) :
          (c.pc = "mutate" /\ cmds' = Replace(c, [c EXCEPT !.pc = "ser_channel"]))
          =>
          /\ \A u, v \in mem'.users : Bare(u) = Bare(v) => u = v
          /\ c.op = "register" =>
                /\ \A i \in 1..Len(c.arg) :
                      Cardinality({u \in mem'.users : Bare(u) = Bare(c.arg[i])}) = 1
                /\ (\A i \in 1..Len(c.arg) : Bare(c.arg[i]) \in mem.users)
                      => mem'.users = mem.users
          /\ (c.op = "unregister" /\ c.arg[1] \notin mem.users) =>
                (mem'.users = mem.users /\ life' = life)
      ]_vars

C16_Witness ==
    /\ file = NoFile /\ ~life.completed /\ ~life.failed
    /\ mem.users = {"a"}
    /\ \E c, d \in BagToSet(cmds) :
          /\ c.op = "unregister" /\ c.arg = <<"a">> /\ c.pc = "ser_channel"
          /\ d.op = "register" /\ d.arg = <<" a", "a">> /\ d.pc = "ser_channel"

-----------------------------------------------------------------------------
(* Claims about missing metadata, checked under Spec *)

\* the accepted submissions of a list, in order
Accepted(subs) == SelectSeq(subs, LAMBDA x : x.result = "AC")

InCatalog(id) == \E i \in 1..Len(problems) : problems[i].id = id

HasDifficulty(id) == \E m \in problem_models : m.id = id /\ m.difficulty.some

\* C17: a solved problem without a catalog entry, without a model entry or
\* with a model entry that holds no difficulty does not fail the run: the
\* iteration that meets it goes on, and the problem is reported, with an
\* empty title when the catalog entry is missing, and with an absent
\* difficulty, shown as unknown and counted as the Unknown color, when the
\* model entry or its difficulty is missing.
C17_MissingMetadataTolerated ==
    [][ ( /\ procPc = "user"
          /\ Len(fetches') = Len(fetches) + 1
          /\ fetches'[Len(fetches')].status = "ok" )
        =>
        LET acs == Accepted(submissions')
            page == embeds'[Len(embeds')]
        IN  /\ procPc' \in {"user", "send"}
            /\ outcome' = outcome
            /\ Len(solved_problems') = Len(acs)
            /\ acs # <<>> =>
                  (Len(embeds') = Len(embeds) + 1 /\ Len(page.fields) = Len(acs))
            /\ \A j \in 1..Len(acs) :
                LET id == acs[j].problem_id
                    p == solved_problems'[j]
                IN  /\ page.fields[j] = to_field(p)
                    /\ ~InCatalog(id) => (p.title = "" /\ page.fields[j].name = "")
                    /\ ~HasDifficulty(id) =>
                          /\ ~p.difficulty.some
                          /\ page.fields[j].value.difficulty = <<"unknown">>
                          /\ DetailColor(p) = "Black"
            /\ (acs # <<>> /\ \A j \in 1..Len(acs) : ~HasDifficulty(acs[j].problem_id))
                  => page.color = "Black"
      ]_vars

C17_Witness ==
    /\ Finished /\ outcome = "ok" /\ Len(sent) = 1
    /\ \E k \in 1..Len(sent[1].message.embeds) :
          LET page == sent[1].message.embeds[k] IN
          /\ page.color = "Black"
          /\ \E j \in 1..Len(page.fields) :
                /\ page.fields[j].name = ""
                /\ page.fields[j].value.difficulty = <<"unknown">>
    /\ \E j \in 1..Len(solved_problems) :
          /\ ~InCatalog(solved_ids(submissions)[j])
          /\ problem_models = {}

-----------------------------------------------------------------------------
(* Claims about the start of the daily run, checked under SpecDaily *)

\* C18: the daily loop never starts a run before the target it computed for
\* the cycle, whatever sub-second fraction `now` had; the target computed
\* after a run is a midnight later than that run's start (and so later than
\* the target the run waited for), and two consecutive daily runs never
\* start on the same local day.
C18_NoRunBeforeTarget ==
    [][ /\ (dailyPc = "sleeping" /\ dailyPc' = "process") =>
              /\ clock' >= target_time
              /\ clock' >= Timestamp(target_time) * TicksPerSec
              /\ Timestamp(target_time) % DaySecs = 0
              /\ started'[Len(started')] = clock'
        /\ (dailyPc = "target" /\ dailyPc' # "target" /\ started # <<>>) =>
              /\ dailyPc' = "sleep"
              /\ Timestamp(target_time') % DaySecs = 0
              /\ Timestamp(target_time') * TicksPerSec > started[Len(started)]
        /\ Len(started') = 2 =>
              started'[1] \div DayTicks < started'[2] \div DayTicks
      ]_vars

C18_Witness ==
    /\ dailyPc = "process" /\ Len(started) = 2
    /\ now % TicksPerSec # 0
    /\ clock = target_time

====
